---- MODULE Spec2Model ----
(***************************************************************************)
(* perfpy: the process resource monitor (src/perfpy/profiler.py), the CLI  *)
(* batch driver (src/perfpy/cli.py), the Profile record                    *)
(* (src/perfpy/schema.py) and the CSV report (src/perfpy/report.py).       *)
(*                                                                         *)
(* One control thread runs the program; the operating system (the spawned  *)
(* process, its descendants, the clock) moves concurrently with it.  The   *)
(* program is entered either through the CLI (main -> profile ->           *)
(* run_and_monitor, defaults for include_children and timeout) or by a     *)
(* direct call of the public function run_and_monitor with any arguments.  *)
(*                                                                         *)
(* An optional value (Python's None or a value) is a set with at most one  *)
(* element.                                                                *)
(***************************************************************************)
EXTENDS Integers, Sequences, FiniteSets, TLC

\* ------------------------------------------------------------------ bounds
MaxCmds == 2        \* commands in a batch
MaxTime == 2        \* clock ticks the model follows
MaxTimeout == 1     \* largest configured timeout, in ticks
MaxRss == 2         \* largest RSS a process shows, in units
MaxCpu == 1         \* largest user / system CPU time a process shows
MaxKids == 2        \* live descendants a process may have at one time

\* --------------------------------------------------------------- constants
None == {}
Some(v) == {v}
Val(o) == CHOOSE v \in o : TRUE

SIGKILL == 9

\* Exit statuses a process that ends on its own may report.
ExitCodes == {0, 1}

\* What a command of the batch is to the operating system and to shlex:
\* runnable, a string with unbalanced quotes, or a missing executable.
CmdKinds == {"ok", "badquote", "noexe"}

Platforms == {"linux", "darwin"}

Pcputimes(u, s) == [user |-> u, system |-> s]

zero_cpu == Pcputimes(0, 0)

\* The fields pydantic declares for Profile, in declaration order.
ProfileFields ==
    <<"name", "command", "bytes_recv", "bytes_sent", "user_time", "cpu_time",
      "total_time", "max_memory_usage">>

\* _sum_rss_bytes(proc, *, include_children): the parameters that may be
\* given positionally are those before the bare `*`.
sum_rss_bytes_positional == <<"proc">>

\* The positional arguments of the call in run_and_monitor:
\* _sum_rss_bytes(ps_proc, include_children).
sample_call_args == <<"ps_proc", "include_children">>

\* Python binds positional arguments to positional parameters; more
\* arguments than parameters is a TypeError raised at the call.
CallBinds(params, args) == Len(args) <= Len(params)

Range(s) == {s[i] : i \in 1..Len(s)}

RECURSIVE MaxOf(_)
MaxOf(S) ==
    IF S = {} THEN 0
    ELSE LET x == CHOOSE y \in S : TRUE
             m == MaxOf(S \ {x})
         IN IF x > m THEN x ELSE m

CpuSum(c) == c.user + c.system

\* ------------------------------------------------------------------- state
VARIABLES
    caller,            \* "main" (the CLI) or "api" (run_and_monitor called directly)
    platform,          \* sys.platform of the host
    commands,          \* the batch: a sequence of command kinds
    include_children,  \* run_and_monitor's argument
    timeout,           \* run_and_monitor's argument: None or a number of ticks
    idx,               \* the command being profiled (0: none yet)
    pc,                \* where the control thread is
    exc,               \* the exception in flight ("" when none)
    pstate,            \* per command, its process: none, running, zombie, reaped
    status,            \* per command, the exit status the OS holds or held
    returncode,        \* Popen.returncode of the current process
    ps_proc,           \* "unset", "handle" or "None"
    desc,              \* how many descendants of the current process are alive
    now,               \* the clock
    start,             \* run_and_monitor's start
    peak_rss,          \* run_and_monitor's peak_rss
    peak_cpu,          \* run_and_monitor's peak_cpu
    seen,              \* what the process showed at each sampling step of the run
    expiredSeen,       \* a poll found the process running past the timeout
    result,            \* what run_and_monitor returned last: None or a record
    profiles,          \* main's profile_measures
    reportOut,         \* the report file: None or header and rows
    call,              \* a helper called on its own: its name and arguments
    ret                \* what that call gave back

vars ==
    <<caller, platform, commands, include_children, timeout, idx, pc, exc,
      pstate, status, returncode, ps_proc, desc, now, start, peak_rss,
      peak_cpu, seen, expiredSeen, result, profiles, reportOut, call, ret>>

\* The state of a helper called on its own, which the program leaves alone.
helper == <<call, ret>>

Cmds == 1..MaxCmds

RECURSIVE SeqsUpTo(_, _)
SeqsUpTo(S, n) ==
    IF n = 0 THEN {<<>>}
    ELSE LET shorter == SeqsUpTo(S, n - 1)
         IN shorter \cup {Append(s, x) : s \in {t \in shorter : Len(t) = n - 1}, x \in S}

\* The positions of the control thread inside run_and_monitor once the
\* process exists.
MonitorPcs == {"wrap", "wait_gone", "init", "poll", "sample", "finally", "reap_kill"}

\* Control has left run_and_monitor: by its return statement or by raising.
LeftPcs == {"returned", "raised"}

Init ==
    /\ caller \in {"main", "api"}
    /\ platform \in Platforms
    /\ IF caller = "main"
       THEN /\ commands \in SeqsUpTo(CmdKinds, MaxCmds)
            /\ include_children = TRUE
            /\ timeout = None
            /\ idx = 0
            /\ pc = "main"
       ELSE /\ commands \in {<<k>> : k \in {"ok", "noexe"}}
            /\ include_children \in BOOLEAN
            /\ timeout \in {None} \cup {Some(t) : t \in 0..MaxTimeout}
            /\ idx = 1
            /\ pc = "spawn"
    /\ exc = ""
    /\ pstate = [i \in Cmds |-> "none"]
    /\ status = [i \in Cmds |-> None]
    /\ returncode = None
    /\ ps_proc = "unset"
    /\ desc = 0
    /\ now = 0
    /\ start = 0
    /\ peak_rss = 0
    /\ peak_cpu = zero_cpu
    /\ seen = <<>>
    /\ expiredSeen = FALSE
    /\ result = None
    /\ profiles = <<>>
    /\ reportOut = None
    /\ call = [fn |-> "none"]
    /\ ret = [fn |-> "none"]

\* ------------------------------------------------------------- the program

\* cli.py, main: the list comprehension takes the next command, or the
\* batch is over and the report is written.
main_next ==
    /\ pc = "main"
    /\ IF idx < Len(commands)
       THEN /\ idx' = idx + 1
            /\ pc' = "profile"
       ELSE /\ pc' = "report"
            /\ UNCHANGED idx
    /\ UNCHANGED <<helper, caller, platform, commands, include_children, timeout, exc,
                   pstate, status, returncode, ps_proc, desc, now, start,
                   peak_rss, peak_cpu, seen, expiredSeen, result,
                   profiles, reportOut>>

\* profile: the snapshots before the run (carried as symbols, see
\* profile_after) and shlex.split.  Unbalanced quotes raise ValueError;
\* neither profile nor main handles it.
profile_before ==
    /\ pc = "profile"
    /\ IF commands[idx] = "badquote"
       THEN /\ exc' = "ValueError"
            /\ pc' = "raised"
       ELSE /\ pc' = "spawn"
            /\ UNCHANGED exc
    /\ UNCHANGED <<helper, caller, platform, commands, include_children, timeout, idx,
                   pstate, status, returncode, ps_proc, desc, now, start,
                   peak_rss, peak_cpu, seen, expiredSeen, result, profiles,
                   reportOut>>

\* _start_process: subprocess.Popen(command).  A missing executable raises
\* FileNotFoundError out of run_and_monitor; otherwise the process runs.
start_process ==
    /\ pc = "spawn"
    /\ IF commands[idx] = "noexe"
       THEN /\ exc' = "FileNotFoundError"
            /\ pc' = "raised"
            /\ UNCHANGED <<pstate, status, returncode, ps_proc, desc, seen,
                           expiredSeen>>
       ELSE /\ pstate' = [pstate EXCEPT ![idx] = "running"]
            /\ status' = [status EXCEPT ![idx] = None]
            /\ returncode' = None
            /\ ps_proc' = "unset"
            /\ desc' = 0
            /\ seen' = <<>>
            /\ expiredSeen' = FALSE
            /\ pc' = "wrap"
            /\ UNCHANGED exc
    /\ UNCHANGED <<helper, caller, platform, commands, include_children, timeout, idx,
                   now, start, peak_rss, peak_cpu, result,
                   profiles, reportOut>>

\* _wrap_psutil: psutil.Process(pid), or None when psutil reports
\* NoSuchProcess, which it can only do for a process that has ended.
wrap_psutil ==
    /\ pc = "wrap"
    /\ \/ /\ ps_proc' = "handle"
          /\ pc' = "init"
       \/ /\ pstate[idx] # "running"
          /\ ps_proc' = "None"
          /\ pc' = "wait_gone"
    /\ UNCHANGED <<helper, caller, platform, commands, include_children, timeout, idx,
                   exc, pstate, status, returncode, desc, now, start,
                   peak_rss, peak_cpu, seen, expiredSeen, result,
                   profiles, reportOut>>

\* wait_gone with the wait left out: the status is read without collecting
\* the process.
wait_gone_no_wait ==
    /\ pc = "wait_gone"
    /\ pstate[idx] = "zombie"
    /\ result' = Some([return_code |-> Val(status[idx]), peak_rss |-> 0,
                       peak_cpu |-> zero_cpu])
    /\ pc' = "returned"
    /\ UNCHANGED <<helper, caller, platform, commands, include_children, timeout, idx,
                   exc, pstate, status, returncode, ps_proc, desc, now, start,
                   peak_rss, peak_cpu, seen, expiredSeen, profiles, reportOut>>

\* run_and_monitor, ps_proc is None: rc = proc.wait(); return rc, 0, zero.
\* wait blocks until the process has ended and collects its status.
wait_gone ==
    /\ pc = "wait_gone"
    /\ pstate[idx] = "zombie"
    /\ pstate' = [pstate EXCEPT ![idx] = "reaped"]
    /\ returncode' = status[idx]
    /\ result' = Some([return_code |-> Val(status[idx]), peak_rss |-> 0,
                       peak_cpu |-> zero_cpu])
    /\ pc' = "returned"
    /\ UNCHANGED <<helper, caller, platform, commands, include_children, timeout, idx,
                   exc, status, ps_proc, desc, now, start, peak_rss, peak_cpu, seen, expiredSeen, profiles, reportOut>>

\* run_and_monitor: start = time.time(); peak_rss = 0; peak_cpu = zero.
init_peaks ==
    /\ pc = "init"
    /\ start' = now
    /\ peak_rss' = 0
    /\ peak_cpu' = zero_cpu
    /\ pc' = "poll"
    /\ UNCHANGED <<helper, caller, platform, commands, include_children, timeout, idx,
                   exc, pstate, status, returncode, ps_proc, desc, now,
                   seen, expiredSeen, result, profiles, reportOut>>

\* _timed_out(start, timeout).
timed_out(st, to) == to # None /\ (now - st) > Val(to)

\* rc = proc.poll(): collects the status of a process that has ended and
\* never blocks.
poll ==
    /\ pc = "poll"
    /\ IF pstate[idx] = "zombie"
       THEN /\ pstate' = [pstate EXCEPT ![idx] = "reaped"]
            /\ returncode' = status[idx]
       ELSE UNCHANGED <<pstate, returncode>>
    /\ expiredSeen' = (expiredSeen \/ (pstate[idx] = "running" /\ timed_out(start, timeout)))
    /\ pc' = "sample"
    /\ UNCHANGED <<helper, caller, platform, commands, include_children, timeout, idx,
                   exc, status, ps_proc, desc, now, start, peak_rss, peak_cpu, seen, result, profiles, reportOut>>

\* The sampling step: current_rss = _sum_rss_bytes(ps_proc, include_children).
\* The call passes include_children positionally to a keyword-only
\* parameter, so it raises TypeError before the function body runs; the
\* try statement has no except clause, so control goes to the finally
\* block with the exception in flight.  seen records what the process
\* showed at that moment.
sample ==
    /\ pc = "sample"
    /\ ~CallBinds(sum_rss_bytes_positional, sample_call_args)
    /\ \E r \in 0..MaxRss, u \in 0..MaxCpu, s \in 0..MaxCpu :
          seen' = Append(seen, [rss |-> r, cpu |-> Pcputimes(u, s)])
    /\ exc' = "TypeError"
    /\ pc' = "finally"
    /\ UNCHANGED <<helper, caller, platform, commands, include_children, timeout, idx,
                   pstate, status, returncode, ps_proc, desc, now, start,
                   peak_rss, peak_cpu, expiredSeen, result,
                   profiles, reportOut>>

\* Where control goes after the finally block: on to the return statement,
\* or out of run_and_monitor with the exception in flight.  Every run that
\* enters the try statement arrives here with the TypeError of its first
\* sampling step, so the rest of the loop body and the return statement
\* after the try statement are reached by no run.
AfterFinally == IF exc = "" THEN "return" ELSE "raised"

\* reap_wait asking the OS again for a process whose status was already
\* collected: the second waitpid fails with ChildProcessError.
reap_wait_again ==
    /\ pc = "finally"
    /\ pstate[idx] \in {"zombie", "reaped"}
    /\ IF pstate[idx] = "reaped"
       THEN /\ exc' = "ChildProcessError"
            /\ pc' = "raised"
            /\ UNCHANGED <<pstate, returncode>>
       ELSE /\ pstate' = [pstate EXCEPT ![idx] = "reaped"]
            /\ returncode' = status[idx]
            /\ pc' = AfterFinally
            /\ UNCHANGED exc
    /\ UNCHANGED <<helper, caller, platform, commands, include_children, timeout,
                   idx, status, ps_proc, desc, now, start, peak_rss, peak_cpu,
                   seen, expiredSeen, result, profiles, reportOut>>

\* _reap, p.wait(timeout=5.0) completing: the process has ended (or ends
\* within the grace period) and its status is collected.
reap_wait ==
    /\ pc = "finally"
    /\ pstate[idx] \in {"zombie", "reaped"}
    /\ pstate' = [pstate EXCEPT ![idx] = "reaped"]
    /\ returncode' = status[idx]
    /\ pc' = AfterFinally
    /\ UNCHANGED <<helper, caller, platform, commands, include_children, timeout, idx,
                   exc, status, ps_proc, desc, now, start, peak_rss, peak_cpu, seen, expiredSeen, result, profiles,
                   reportOut>>

\* _reap, p.wait(timeout=5.0) raising TimeoutExpired: the process is still
\* running when the grace period ends.
reap_expired ==
    /\ pc = "finally"
    /\ pstate[idx] = "running"
    /\ pc' = "reap_kill"
    /\ UNCHANGED <<helper, caller, platform, commands, include_children, timeout, idx,
                   exc, pstate, status, returncode, ps_proc, desc, now, start,
                   peak_rss, peak_cpu, seen, expiredSeen, result,
                   profiles, reportOut>>

\* reap_kill with the final p.wait() left out: the process is killed and
\* not collected.
reap_kill_no_wait ==
    /\ pc = "reap_kill"
    /\ IF pstate[idx] = "running"
       THEN /\ status' = [status EXCEPT ![idx] = Some(0 - SIGKILL)]
            /\ pstate' = [pstate EXCEPT ![idx] = "zombie"]
       ELSE UNCHANGED <<status, pstate>>
    /\ pc' = AfterFinally
    /\ UNCHANGED <<helper, caller, platform, commands, include_children, timeout, idx,
                   exc, returncode, ps_proc, desc, now, start, peak_rss,
                   peak_cpu, seen, expiredSeen, result, profiles, reportOut>>

\* _reap, except TimeoutExpired: p.kill(); p.wait().  A running process dies
\* of SIGKILL; one that ended meanwhile keeps its own status.
reap_kill ==
    /\ pc = "reap_kill"
    /\ LET st == IF pstate[idx] = "running" THEN Some(0 - SIGKILL) ELSE status[idx]
       IN /\ status' = [status EXCEPT ![idx] = st]
          /\ returncode' = st
    /\ pstate' = [pstate EXCEPT ![idx] = "reaped"]
    /\ pc' = AfterFinally
    /\ UNCHANGED <<helper, caller, platform, commands, include_children, timeout, idx,
                   exc, ps_proc, desc, now, start, peak_rss,
                   peak_cpu, seen, expiredSeen, result, profiles, reportOut>>

\* Profile(**data): pydantic keeps the declared fields and ignores the
\* other keys; __init__ then scales max_memory_usage on macOS.
Profile(data) ==
    [f \in Range(ProfileFields) |->
        IF f = "max_memory_usage" /\ platform = "darwin"
        THEN data[f] * 1024
        ELSE data[f]]

\* profile, after run_and_monitor returned: the snapshots after the run,
\* the deltas and the Profile record, which main's list takes.  The
\* network and wall-clock deltas are carried as symbols: the host counters
\* and the monotonic clock are outside the monitor.
profile_after ==
    /\ pc = "returned"
    /\ caller = "main"
    /\ LET r == Val(result)
           data == [name |-> idx,
                    command |-> commands[idx],
                    bytes_recv |-> "recv_delta",
                    bytes_sent |-> "sent_delta",
                    user_time |-> r.peak_cpu.user,
                    cpu_time |-> r.peak_cpu.system,
                    total_time |-> "time_delta",
                    max_memory_usage |-> r.peak_rss,
                    return_code |-> r.return_code]
       IN profiles' = Append(profiles, Profile(data))
    /\ pc' = "main"
    /\ UNCHANGED <<helper, caller, platform, commands, include_children, timeout, idx,
                   exc, pstate, status, returncode, ps_proc, desc, now, start,
                   peak_rss, peak_cpu, seen, expiredSeen, result,
                   reportOut>>

\* report: the header row is the declared field names, then one row per
\* profile with the values of model_dump() in field order.
report ==
    /\ pc = "report"
    /\ reportOut' = Some([header |-> ProfileFields,
                          rows |-> [i \in 1..Len(profiles) |->
                                      [j \in 1..Len(ProfileFields) |->
                                          profiles[i][ProfileFields[j]]]]])
    /\ pc' = "done"
    /\ UNCHANGED <<helper, caller, platform, commands, include_children, timeout, idx,
                   exc, pstate, status, returncode, ps_proc, desc, now, start,
                   peak_rss, peak_cpu, seen, expiredSeen, result,
                   profiles>>

\* --------------------------------------------------- the operating system

\* The process ends on its own with some exit status.
proc_exit ==
    /\ pc \in MonitorPcs
    /\ pstate[idx] = "running"
    /\ \E c \in ExitCodes : status' = [status EXCEPT ![idx] = Some(c)]
    /\ pstate' = [pstate EXCEPT ![idx] = "zombie"]
    /\ UNCHANGED <<helper, caller, platform, commands, include_children, timeout, idx,
                   pc, exc, returncode, ps_proc, desc, now, start, peak_rss, peak_cpu, seen, expiredSeen, result, profiles,
                   reportOut>>

\* The process starts a descendant.
desc_spawn ==
    /\ pc \in MonitorPcs
    /\ pstate[idx] = "running"
    /\ desc < MaxKids
    /\ desc' = desc + 1
    /\ UNCHANGED <<helper, caller, platform, commands, include_children, timeout, idx,
                   pc, exc, pstate, status, returncode, ps_proc, now, start,
                   peak_rss, peak_cpu, seen, expiredSeen, result,
                   profiles, reportOut>>

\* A descendant ends on its own.
desc_exit ==
    /\ pc \in MonitorPcs
    /\ desc > 0
    /\ desc' = desc - 1
    /\ UNCHANGED <<helper, caller, platform, commands, include_children, timeout, idx,
                   pc, exc, pstate, status, returncode, ps_proc, now, start,
                   peak_rss, peak_cpu, seen, expiredSeen, result,
                   profiles, reportOut>>

\* Time passes between the clock readings of the monitor loop.
tick ==
    /\ pc \in {"init", "poll", "sample"}
    /\ now < MaxTime
    /\ now' = now + 1
    /\ UNCHANGED <<helper, caller, platform, commands, include_children, timeout, idx,
                   pc, exc, pstate, status, returncode, ps_proc, desc, start,
                   peak_rss, peak_cpu, seen, expiredSeen, result,
                   profiles, reportOut>>

Next ==
    \/ main_next
    \/ profile_before
    \/ start_process
    \/ wrap_psutil
    \/ wait_gone
    \/ init_peaks
    \/ poll
    \/ sample
    \/ reap_wait
    \/ reap_expired
    \/ reap_kill
    \/ profile_after
    \/ report
    \/ proc_exit
    \/ desc_spawn
    \/ desc_exit
    \/ tick

Spec == Init /\ [][Next]_vars

\* ------------------------------------------- the helpers called on their own
\* _sum_rss_bytes, _kill_tree and Profile are applied to every outcome the
\* psutil calls they make can have: a value, or one of the two exceptions
\* the helpers name.

\* The program's own state, which a helper call leaves alone.
program ==
    <<caller, platform, commands, include_children, timeout, idx, pc, exc,
      pstate, status, returncode, ps_proc, desc, now, start, peak_rss,
      peak_cpu, seen, expiredSeen, result, profiles, reportOut>>

\* contextlib.suppress(psutil.NoSuchProcess, psutil.AccessDenied).
Suppressed == {"NoSuchProcess", "AccessDenied"}

\* What leaves a `with contextlib.suppress(...)` block whose body raised
\* err ("" when it raised nothing).
Suppress(err) == IF err \in Suppressed THEN "" ELSE err

\* The outcomes of memory_info().rss: a value, or an exception.
ReadOutcomes ==
    [err : {""}, val : 0..MaxRss] \cup [err : Suppressed, val : {0}]

\* The outcomes of children(recursive=True) and of kill().
CallOutcomes == {""} \cup Suppressed

\* _sum_rss_bytes, the for loop from child i on: each child's read is in a
\* suppress block of its own.
RECURSIVE children_rss(_, _)
children_rss(kids, i) ==
    IF i > Len(kids) THEN [rss |-> 0, err |-> ""]
    ELSE LET left == Suppress(kids[i].err)
             got == IF kids[i].err = "" THEN kids[i].val ELSE 0
         IN IF left # "" THEN [rss |-> got, err |-> left]
            ELSE LET rest == children_rss(kids, i + 1)
                 IN [rss |-> got + rest.rss, err |-> rest.err]

\* _sum_rss_bytes(proc, include_children=inc): the target's read, the
\* enumeration and the loop share the outer suppress block, so an exception
\* of the target's read or of the enumeration ends the block with what rss
\* holds by then.
sum_rss_bytes(proc, inc) ==
    LET body ==
            IF proc.mem.err # "" THEN [rss |-> 0, err |-> proc.mem.err]
            ELSE IF ~inc THEN [rss |-> proc.mem.val, err |-> ""]
            ELSE IF proc.children # ""
                 THEN [rss |-> proc.mem.val, err |-> proc.children]
            ELSE LET c == children_rss(proc.kids, 1)
                 IN [rss |-> proc.mem.val + c.rss, err |-> c.err]
    IN [rss |-> body.rss, raised |-> Suppress(body.err)]

\* The for loop of _kill_tree with the per-child suppress block left out:
\* the first failing kill ends the loop.
RECURSIVE kill_children_bare(_, _)
kill_children_bare(kids, i) ==
    IF i > Len(kids) THEN [attempts |-> <<>>, err |-> ""]
    ELSE IF kids[i] # "" THEN [attempts |-> <<i>>, err |-> kids[i]]
         ELSE LET rest == kill_children_bare(kids, i + 1)
              IN [attempts |-> <<i>> \o rest.attempts, err |-> rest.err]

\* _kill_tree, the for loop from child i on: each child.kill() is in a
\* suppress block of its own.  attempts lists the children whose kill was
\* attempted, in order.
RECURSIVE kill_children(_, _)
kill_children(kids, i) ==
    IF i > Len(kids) THEN [attempts |-> <<>>, err |-> ""]
    ELSE LET left == Suppress(kids[i])
         IN IF left # "" THEN [attempts |-> <<i>>, err |-> left]
            ELSE LET rest == kill_children(kids, i + 1)
                 IN [attempts |-> <<i>> \o rest.attempts, err |-> rest.err]

\* _kill_tree(proc): the enumeration and the loop in one suppress block,
\* then proc.kill() in another.  The target is 0 in attempts.
kill_tree(proc) ==
    LET loop == IF proc.children # ""
                THEN [attempts |-> <<>>, err |-> proc.children]
                ELSE kill_children(proc.kids, 1)
        left == Suppress(loop.err)
    IN IF left # "" THEN [attempts |-> loop.attempts, raised |-> left]
       ELSE [attempts |-> Append(loop.attempts, 0),
             raised |-> Suppress(proc.kill)]

HelperInit ==
    /\ Init
    /\ caller = "api"
    /\ commands = <<"ok">>
    /\ include_children = TRUE
    /\ timeout = None

\* Profile(...) built from any peak RSS and exit code.
call_Profile ==
    /\ call.fn = "none"
    /\ \E m \in 0..MaxRss, c \in ExitCodes :
          LET data == [name |-> 1,
                       command |-> "ok",
                       bytes_recv |-> "recv_delta",
                       bytes_sent |-> "sent_delta",
                       user_time |-> 0,
                       cpu_time |-> 0,
                       total_time |-> "time_delta",
                       max_memory_usage |-> m,
                       return_code |-> c]
          IN /\ call' = [fn |-> "Profile", data |-> data]
             /\ ret' = [fn |-> "Profile", record |-> Profile(data)]
    /\ UNCHANGED program

\* _sum_rss_bytes(proc, include_children=inc) on any process tree.
call_sum_rss_bytes ==
    /\ call.fn = "none"
    /\ \E inc \in BOOLEAN, mem \in ReadOutcomes, ch \in CallOutcomes,
          kids \in SeqsUpTo(ReadOutcomes, MaxKids) :
          LET proc == [mem |-> mem, children |-> ch, kids |-> kids]
              out == sum_rss_bytes(proc, inc)
          IN /\ call' = [fn |-> "sum_rss_bytes", proc |-> proc,
                         include_children |-> inc]
             /\ ret' = [fn |-> "sum_rss_bytes", rss |-> out.rss,
                        raised |-> out.raised]
    /\ UNCHANGED program

\* _kill_tree(proc) on any process tree.
call_kill_tree ==
    /\ call.fn = "none"
    /\ \E k \in CallOutcomes, ch \in CallOutcomes,
          kids \in SeqsUpTo(CallOutcomes, MaxKids) :
          LET proc == [kill |-> k, children |-> ch, kids |-> kids]
              out == kill_tree(proc)
          IN /\ call' = [fn |-> "kill_tree", proc |-> proc]
             /\ ret' = [fn |-> "kill_tree", attempts |-> out.attempts,
                        raised |-> out.raised]
    /\ UNCHANGED program

HelperNext ==
    \/ call_Profile
    \/ call_sum_rss_bytes
    \/ call_kill_tree

SpecHelpers == HelperInit /\ [][HelperNext]_vars

TypeOK ==
    /\ caller \in {"main", "api"}
    /\ pc \in MonitorPcs \cup LeftPcs \cup {"main", "profile", "spawn", "report", "done"}
    /\ \A i \in Cmds : pstate[i] \in {"none", "running", "zombie", "reaped"}
    /\ peak_rss \in 0..MaxRss
    /\ now \in 0..MaxTime

\* ------------------------------------------------------------ properties

\* The current command's process was spawned.
Spawned == idx > 0 /\ pstate[idx] # "none"

\* The memory values the process showed at the sampling steps of the run.
SeenRss == {seen[i].rss : i \in 1..Len(seen)}

\* C1: after a successful spawn run_and_monitor ends by returning a result
\* to its caller, never by raising.
C1_ReturnsAfterSpawn == (pc \in LeftPcs /\ Spawned) => pc = "returned"

\* C2: whenever control is outside run_and_monitor, every process it
\* spawned has been waited on and its exit status collected.
C2_ReapedWhenLeft ==
    pc \notin MonitorPcs => \A i \in Cmds : pstate[i] \in {"none", "reaped"}

\* C2, its case: an exception raised during sampling leaves run_and_monitor
\* after the reaper killed and collected the still running process.
C2_Witness ==
    /\ pc = "raised"
    /\ exc = "TypeError"
    /\ pstate[idx] = "reaped"
    /\ returncode = Some(0 - SIGKILL)

\* C3: once a poll has found the process running past the configured
\* timeout, run_and_monitor returns, and when it is left neither the
\* process nor any descendant is running.
C3_TreeGoneAfterTimeout ==
    (pc \in LeftPcs /\ Spawned /\ expiredSeen)
        => (pc = "returned" /\ pstate[idx] = "reaped" /\ desc = 0)

\* C4: a run ended by timeout expiry returns a result that reports
\* timedOut = true, and a run whose process ended on its own returns one
\* that reports timedOut = false.
C4_TimedOutReported ==
    (pc \in LeftPcs /\ Spawned)
        => IF expiredSeen
           THEN /\ pc = "returned"
                /\ "timedOut" \in DOMAIN Val(result)
                /\ Val(result).timedOut = TRUE
           ELSE pc = "returned"
                    => /\ "timedOut" \in DOMAIN Val(result)
                       /\ Val(result).timedOut = FALSE

\* C5: when the program has ended, every command after one whose parse or
\* launch failed has still been taken up for profiling.
C5_BatchContinues ==
    (caller = "main" /\ pc \in {"raised", "done"})
        => \A i \in 1..idx :
              commands[i] \in {"badquote", "noexe"} => idx = Len(commands)

\* The column of the report named f, or 0 when it has none.
Column(rep, f) ==
    IF f \in Range(rep.header)
    THEN CHOOSE j \in 1..Len(rep.header) : rep.header[j] = f
    ELSE 0

\* C6: every Profile record carries the monitor's exit code as return_code,
\* and the report has one row per command whose return_code column holds
\* that code.
C6_ReturnCodeReported ==
    /\ \A i \in 1..Len(profiles) :
          /\ "return_code" \in DOMAIN profiles[i]
          /\ profiles[i].return_code = Val(status[i])
    /\ reportOut # None =>
          LET rep == Val(reportOut)
          IN /\ Len(rep.rows) = Len(commands)
             /\ \A i \in 1..Len(rep.rows) :
                   /\ Column(rep, "return_code") # 0
                   /\ rep.rows[i][Column(rep, "return_code")] = Val(status[i])

C9_FirstSampleCounts ==
    (pc \in LeftPcs /\ ps_proc = "handle" /\ Len(seen) = 1 /\ seen[1].rss > 0)
        => (pc = "returned" /\ Val(result).peak_rss > 0)

\* C10: at most one process of the batch is unreaped at any moment, and
\* every command before the current one has no unreaped process.
C10_OneAtATime ==
    /\ Cardinality({i \in Cmds : pstate[i] \in {"running", "zombie"}}) <= 1
    /\ \A i \in Cmds : i < idx => pstate[i] \in {"none", "reaped"}

\* C10, its case: the second command's process runs after the first
\* command's process was reaped.
C10_Witness ==
    /\ idx = 2
    /\ pstate[1] = "reaped"
    /\ pstate[2] = "running"

\* C11: on every return of run_and_monitor the process has been reaped and
\* the returned exit code is defined and is the status the OS reported.
C11_ExitCodeDefined ==
    pc = "returned"
        => /\ pstate[idx] = "reaped"
           /\ returncode # None
           /\ returncode = status[idx]
           /\ Val(result).return_code = Val(returncode)

\* C11, its case: run_and_monitor has returned the non-zero status of a
\* process that ended on its own.
C11_Witness ==
    /\ pc = "returned"
    /\ status[idx] = Some(1)
    /\ Val(result).return_code = 1

\* C13: _reap on a process whose status was already collected returns
\* without error, sends no kill and leaves the recorded exit code as it is.
C13_ReapIdempotent ==
    [][(pc = "finally" /\ pstate[idx] = "reaped")
          => /\ pc' \in {"finally", AfterFinally}
             /\ exc' = exc
             /\ pstate'[idx] = "reaped"
             /\ status'[idx] = status[idx]
             /\ returncode' = returncode]_vars

\* C13, its case: _reap is called on a process that the poll of the
\* iteration had already reaped.
C13_Witness ==
    /\ pc = "finally"
    /\ pstate[idx] = "reaped"
    /\ returncode \in {Some(c) : c \in ExitCodes}

\* C15: the sampling step completes without raising, so the finally block
\* is never entered or left with an exception in flight.
C15_SamplingNeverRaises ==
    pc \in {"finally", "reap_kill"} => exc = ""

\* C16: the iteration whose poll was performed has folded its sample into
\* the peaks before the loop is left: the peaks are at least what the
\* process showed at the last sampling step.
C16_LastSampleFolded ==
    (ps_proc = "handle" /\ pc \in {"finally", "reap_kill"} \cup LeftPcs /\ Len(seen) >= 1)
        => /\ peak_rss >= seen[Len(seen)].rss
           /\ CpuSum(peak_cpu) >= CpuSum(seen[Len(seen)].cpu)

\* C18: an iteration whose poll found the process running past the
\* configured timeout triggers the tree kill and the wait that follows it,
\* so the finally block is entered with the process already collected.
C18_KillTriggeredWhenExpired ==
    (pc = "finally" /\ expiredSeen) => pstate[idx] = "reaped"

\* C19: through the CLI the monitor never ends a process: a run is left
\* only after its process ended on its own.
C19_MainNeverKills ==
    (caller = "main" /\ pc \in LeftPcs /\ Spawned)
        => status[idx] \in {Some(c) : c \in ExitCodes}

\* C12: the max-memory value of the Profile record is the peak RSS it was
\* built from, unchanged, on every platform.
C12_MaxMemoryUnscaled ==
    call.fn = "Profile"
        => ret.record.max_memory_usage = call.data.max_memory_usage

\* The value of a read that succeeded, zero for one that failed.
ReadOrZero(o) == IF o.err = "" THEN o.val ELSE 0

RECURSIVE SumReads(_)
SumReads(reads) ==
    IF reads = <<>> THEN 0
    ELSE ReadOrZero(Head(reads)) + SumReads(Tail(reads))

\* C14: with include_children set, the memory value of a sample is the sum
\* of the reads that succeed among the target and its enumerated
\* descendants, whichever of them fail.
C14_EachCountedIndependently ==
    (call.fn = "sum_rss_bytes" /\ call.include_children)
        => ret.rss = ReadOrZero(call.proc.mem)
                     + (IF call.proc.children = ""
                        THEN SumReads(call.proc.kids)
                        ELSE 0)

\* C17: _kill_tree raises nothing, attempts a kill on every descendant it
\* enumerated, in order, whichever of those kills fail, and then on the
\* target, also when the enumeration failed.
C17_KillTreeBestEffort ==
    call.fn = "kill_tree"
        => LET enumerated == IF call.proc.children = ""
                             THEN Len(call.proc.kids)
                             ELSE 0
           IN /\ ret.raised = ""
              /\ Len(ret.attempts) = enumerated + 1
              /\ \A i \in 1..enumerated : ret.attempts[i] = i
              /\ ret.attempts[enumerated + 1] = 0

\* C17, its case: the first of two descendants refuses its kill and the
\* target is already gone; all three kills were attempted.
C17_Witness ==
    /\ call.fn = "kill_tree"
    /\ call.proc.children = ""
    /\ call.proc.kids = <<"AccessDenied", "">>
    /\ call.proc.kill = "NoSuchProcess"
    /\ ret.attempts = <<1, 2, 0>>
    /\ ret.raised = ""

\* C17, its other case: the enumeration fails and the target's kill is
\* still attempted.
C17_WitnessNoChildren ==
    /\ call.fn = "kill_tree"
    /\ call.proc.children = "NoSuchProcess"
    /\ ret.attempts = <<0>>

====
